---- MODULE Spec2Model ----
(***************************************************************************)
(* Model of @kanzen/result: the synchronous ResultSync container           *)
(* (src/result/sync/result-sync.ts) and the errors it raises               *)
(* (src/result/errors.ts).                                                 *)
(*                                                                         *)
(* The source file of the container holds two generations of the class:    *)
(* `Result` (slot `error`, safeTrySync running fn at once) and, after it,  *)
(* `ResultSync` (slot `err`, safeTrySync returning a closure).  index.ts   *)
(* and result-sync.test.ts import ResultSync, ResultOk and ResultErr,      *)
(* which only the second generation defines, so that one is modelled.      *)
(*                                                                         *)
(* The program state is the heap of ResultSync instances built so far,     *)
(* the closures handed out by safeTrySync, and the record of the last      *)
(* call: what was called, what it returned or threw, and which callbacks   *)
(* it invoked with which arguments.  fresh is a history variable: the      *)
(* instance the caller built last with okSync or errSync, and from what.   *)
(*                                                                         *)
(* The asynchronous ResultAsync (src/result/async/result-async.ts) adds    *)
(* the promises created so far, the ResultAsync instances (each holding    *)
(* its _promise) and the queue of promise jobs of the JavaScript run time. *)
(* called counts the calls made on ResultAsync.  Its behaviours are those  *)
(* of SpecAsync.                                                           *)
(***************************************************************************)
EXTENDS Naturals, Sequences, FiniteSets

VARIABLES results, wrappers, last, fresh, promises, asyncs, jobs, called

vars == <<results, wrappers, last, fresh, promises, asyncs, jobs, called>>

\* ------------------------------------------------------------------------
\* Bounds
\* ------------------------------------------------------------------------

\* Largest number of ResultSync instances alive in one run.
MaxResults == 3

\* Largest number of closures returned by safeTrySync in one run.
MaxWrappers == 1

\* ------------------------------------------------------------------------
\* JavaScript values.  Every value is a record of the same shape:
\*   t  the type tag, s  a string payload, n  a heap index,
\*   c  the cause of an Error (a sequence of zero or one value).
\* ------------------------------------------------------------------------

JsValue(t, s, n, c) == [t |-> t, s |-> s, n |-> n, c |-> c]

Undefined == JsValue("undefined", "", 0, <<>>)

Null == JsValue("null", "", 0, <<>>)

Str(x) == JsValue("string", x, 0, <<>>)

Sym(x) == JsValue("symbol", x, 0, <<>>)

Bool(b) == JsValue("boolean", IF b THEN "true" ELSE "false", 0, <<>>)

\* A reference to the i-th ResultSync instance of the heap.
Ref(i) == JsValue("ResultSync", "", i, <<>>)

\* A reference to the i-th closure returned by safeTrySync.
FnRef(i) == JsValue("function", "", i, <<>>)

\* The `??` operator: the right operand replaces null and undefined only.
Nullish(x) == x.t \in {"null", "undefined"}

Coalesce(x, d) == IF Nullish(x) THEN d ELSE x

\* String(x) as a template literal performs it: it throws a TypeError for
\* a Symbol and yields a string for everything else.
TypeError == JsValue("TypeError", "Cannot convert a Symbol value to a string", 0, <<>>)

CanInterpolate(x) == x.t # "symbol"

\* ------------------------------------------------------------------------
\* enums.ts, errors.ts
\* ------------------------------------------------------------------------

ResultStatus == [OK |-> "ok", ERR |-> "err"]

ResultEmpty == Sym("ResultEmpty")

ImposibleError(message) == JsValue("ImposibleError", message, 0, <<>>)

NoThrowAllowedError(message, cause) == JsValue("NoThrowAllowedError", message, 0, <<cause>>)

\* ------------------------------------------------------------------------
\* Completion of a call: a normal return or a throw, each with a value.
\* An effect is a completion plus the heap it leaves and the callbacks it
\* invoked, in order.
\* ------------------------------------------------------------------------

Return(v) == [kind |-> "return", val |-> v]

Throw(v) == [kind |-> "throw", val |-> v]

Invocation(fn, arg) == [fn |-> fn, arg |-> arg]

Effect(h, out, calls) == [h |-> h, out |-> out, calls |-> calls]

\* ------------------------------------------------------------------------
\* What callers supply.
\* ------------------------------------------------------------------------

\* Payloads a caller may pass: null and undefined are legal, the sentinel
\* is not (spec section 6).
Payloads == {Null, Undefined, Str("a")}

\* Callbacks returning a plain value, named by their behaviour.
ValueFns == {"id", "constA", "toNull", "throwB", "throwSym"}

\* The two callbacks handed to match.
MatchFns == {"id", "constA", "throwB"}

\* Callbacks returning a Result (continuations of andThen / orElse).
\* "toFirst" returns an instance its closure captured: the first one built.
ResultFns == {"toOk", "toErr", "raiseB", "toFirst"}

\* Functions handed to safeTrySync, and its optional error mappers.
TryFns == {"id", "throwB"}

MapErrorFns == {"constA", "throwB"}

\* ------------------------------------------------------------------------
\* ResultSync: constructor and factories
\* ------------------------------------------------------------------------

\* constructor(args): a missing key reads as undefined.
ResultSync(status, ok, err) ==
    [status |-> status,
     ok     |-> Coalesce(ok, ResultEmpty),
     err    |-> Coalesce(err, ResultEmpty)]

\* okSync storing into the instance built last instead of a new one.
okSyncReusingInstance(h, okValue) ==
    IF h = <<>>
    THEN Effect(<<ResultSync(ResultStatus.OK, okValue, Undefined)>>,
                Return(Ref(1)), <<>>)
    ELSE Effect([h EXCEPT ![Len(h)] = ResultSync(ResultStatus.OK, okValue, Undefined)],
                Return(Ref(Len(h))), <<>>)

okSync(h, okValue) ==
    Effect(Append(h, ResultSync(ResultStatus.OK, okValue, Undefined)),
           Return(Ref(Len(h) + 1)), <<>>)

errSync(h, errorValue) ==
    Effect(Append(h, ResultSync(ResultStatus.ERR, Undefined, errorValue)),
           Return(Ref(Len(h) + 1)), <<>>)

\* ------------------------------------------------------------------------
\* Callbacks
\* ------------------------------------------------------------------------

\* Calling callback fn with argument x on heap h.
Call(h, fn, x) ==
    CASE fn = "id"       -> Effect(h, Return(x), <<Invocation(fn, x)>>)
      [] fn = "constA"   -> Effect(h, Return(Str("a")), <<Invocation(fn, x)>>)
      [] fn = "toNull"   -> Effect(h, Return(Null), <<Invocation(fn, x)>>)
      [] fn = "throwB"   -> Effect(h, Throw(Str("b")), <<Invocation(fn, x)>>)
      [] fn = "throwSym" -> Effect(h, Throw(Sym("s")), <<Invocation(fn, x)>>)
      [] fn = "raiseB"   -> Effect(h, Throw(Str("b")), <<Invocation(fn, x)>>)
      [] fn = "toOk"     -> [okSync(h, x) EXCEPT !.calls = <<Invocation(fn, x)>>]
      [] fn = "toErr"    -> [errSync(h, x) EXCEPT !.calls = <<Invocation(fn, x)>>]
      [] fn = "toFirst"  -> Effect(h, Return(Ref(1)), <<Invocation(fn, x)>>)

\* ------------------------------------------------------------------------
\* ResultSync: private getters and accessors
\* ------------------------------------------------------------------------

isOk(this) == this.status = ResultStatus.OK

\* isErr answering from the err slot instead of the status.
isErrBySlot(this) == this.err # ResultEmpty

isErr(this) == this.status = ResultStatus.ERR

getErr(this) ==
    IF ~isErr(this) THEN Throw(ImposibleError("error is empty"))
    ELSE Return(this.err)

getOk(this) ==
    IF ~isOk(this) THEN Throw(ImposibleError("value is empty"))
    ELSE Return(this.ok)

unwrap(this) ==
    IF isErr(this)
    THEN LET e == getErr(this) IN
         IF e.kind = "throw" THEN e ELSE Throw(e.val)
    ELSE getOk(this)

unwrapOr(this, fallback) ==
    IF isErr(this) THEN Return(fallback) ELSE getOk(this)

\* A getter's value as the argument of what follows: `then` is what the
\* call completes as when the getter returned, and the getter's throw is
\* the call's throw otherwise.
WithGot(h, got, then) ==
    IF got.kind = "throw" THEN Effect(h, got, <<>>) ELSE then

match(h, this, okFn, errFn) ==
    IF isErr(this)
    THEN LET e == getErr(this) IN WithGot(h, e, Call(h, errFn, e.val))
    ELSE LET v == getOk(this) IN WithGot(h, v, Call(h, okFn, v.val))

\* ------------------------------------------------------------------------
\* ResultSync: combinators
\* ------------------------------------------------------------------------

\* A call of a callback whose raise is turned into an ERR Result.
WrapCallCatching(c, wrapped) ==
    IF c.out.kind = "throw"
    THEN [errSync(c.h, c.out.val) EXCEPT !.calls = c.calls]
    ELSE [wrapped EXCEPT !.calls = c.calls]

\* ResultSync.okSync(fn(x)) / ResultSync.errSync(fn(x)): c is the call of
\* fn, made first; its throw, if any, is the throw of the whole expression,
\* and `wrapped` is the factory applied to its value otherwise.
WrapCall(c, wrapped) ==
    IF c.out.kind = "throw" THEN c ELSE [wrapped EXCEPT !.calls = c.calls]

\* map wrapping the mapped value with the wrong factory.
mapWrappingAsErr(h, this, fn) ==
    IF isErr(this)
    THEN LET e == getErr(this) IN WithGot(h, e, errSync(h, e.val))
    ELSE LET v == getOk(this)
             c == Call(h, fn, v.val)
         IN  WithGot(h, v, WrapCall(c, errSync(c.h, c.out.val)))

map(h, this, fn) ==
    IF isErr(this)
    THEN LET e == getErr(this) IN WithGot(h, e, errSync(h, e.val))
    ELSE LET v == getOk(this)
             c == Call(h, fn, v.val)
         IN  WithGot(h, v, WrapCall(c, okSync(c.h, c.out.val)))

mapErr(h, this, fn) ==
    IF isErr(this)
    THEN LET e == getErr(this)
             c == Call(h, fn, e.val)
         IN  WithGot(h, e, WrapCall(c, errSync(c.h, c.out.val)))
    ELSE LET v == getOk(this) IN WithGot(h, v, okSync(h, v.val))

andThen(h, this, fn) ==
    IF isErr(this)
    THEN LET e == getErr(this) IN WithGot(h, e, errSync(h, e.val))
    ELSE LET v == getOk(this) IN WithGot(h, v, Call(h, fn, v.val))

orElse(h, this, fn) ==
    IF isErr(this)
    THEN LET e == getErr(this) IN WithGot(h, e, Call(h, fn, e.val))
    ELSE LET v == getOk(this) IN WithGot(h, v, okSync(h, v.val))

\* catch (err) { throw new NoThrowAllowedError(`... ${err}`, { cause: err }) }
\* The message interpolates err before the error object is built.
TeeCatch(message, err) ==
    IF CanInterpolate(err) THEN Throw(NoThrowAllowedError(message, err))
    ELSE Throw(TypeError)

\* try { fn(getter()) } catch ...; return factory(getter())
\* got is the getter's completion and status selects the factory.
Tee(h, got, fn, message, status) ==
    IF got.kind = "throw" THEN Effect(h, TeeCatch(message, got.val), <<>>)
    ELSE LET c == Call(h, fn, got.val) IN
         IF c.out.kind = "throw"
         THEN Effect(c.h, TeeCatch(message, c.out.val), c.calls)
         ELSE IF status = ResultStatus.OK
              THEN [okSync(c.h, got.val) EXCEPT !.calls = c.calls]
              ELSE [errSync(c.h, got.val) EXCEPT !.calls = c.calls]

andTee(h, this, fn) ==
    IF isErr(this)
    THEN LET e == getErr(this) IN WithGot(h, e, errSync(h, e.val))
    ELSE Tee(h, getOk(this), fn, "andTee should not throw new errors",
             ResultStatus.OK)

orTee(h, this, fn) ==
    IF isOk(this)
    THEN LET v == getOk(this) IN WithGot(h, v, okSync(h, v.val))
    ELSE Tee(h, getErr(this), fn, "orTee should not throw new errors",
             ResultStatus.ERR)

\* ------------------------------------------------------------------------
\* ResultSync.safeTrySync
\* ------------------------------------------------------------------------

\* Marks an optional callback that was not supplied.
Absent == ""

\* safeTrySync(fn, fnErr) calls nothing: it returns a closure over both.
safeTrySync(fn, fnErr) == [fn |-> fn, fnErr |-> fnErr]

\* The closure (...args) => { try {...} catch (error) {...} }.
safeTrySyncClosure(h, w, arg) ==
    LET c == Call(h, w.fn, arg) IN
    IF c.out.kind = "return"
    THEN [okSync(c.h, c.out.val) EXCEPT !.calls = c.calls]
    ELSE IF w.fnErr # Absent
         THEN LET m == Call(c.h, w.fnErr, c.out.val) IN
              IF m.out.kind = "throw"
              THEN Effect(m.h, m.out, c.calls \o m.calls)
              ELSE [errSync(m.h, m.out.val) EXCEPT !.calls = c.calls \o m.calls]
         ELSE [errSync(c.h, c.out.val) EXCEPT !.calls = c.calls]

\* ------------------------------------------------------------------------
\* State machine
\* ------------------------------------------------------------------------

NoCall == [op |-> "none", recv |-> 0, arg |-> Undefined, fn |-> "", fn2 |-> "",
           out |-> Return(Undefined), calls |-> <<>>]

\* No instance was built by the caller yet.
NoFresh == [id |-> 0, by |-> "none", given |-> Undefined]

CallRecord(op, recv, arg, fn, fn2, out, calls) ==
    [op |-> op, recv |-> recv, arg |-> arg, fn |-> fn, fn2 |-> fn2,
     out |-> out, calls |-> calls]

Init ==
    /\ results = <<>>
    /\ wrappers = <<>>
    /\ last = NoCall
    /\ fresh = NoFresh
    /\ promises = <<>>
    /\ asyncs = <<>>
    /\ jobs = <<>>
    /\ called = 0

\* A call whose effect is eff: the heap becomes eff.h, within the bound.
Commit(op, recv, arg, fn, fn2, eff) ==
    /\ Len(eff.h) <= MaxResults
    /\ results' = eff.h
    /\ last' = CallRecord(op, recv, arg, fn, fn2, eff.out, eff.calls)
    /\ UNCHANGED <<wrappers, promises, asyncs, jobs, called>>

CallOkSync ==
    \E v \in Payloads :
        /\ Commit("okSync", 0, v, "", "", okSync(results, v))
        /\ fresh' = [id |-> Len(results) + 1, by |-> "okSync", given |-> v]

CallErrSync ==
    \E e \in Payloads :
        /\ Commit("errSync", 0, e, "", "", errSync(results, e))
        /\ fresh' = [id |-> Len(results) + 1, by |-> "errSync", given |-> e]

CallIsOk ==
    \E i \in DOMAIN results :
        /\ Commit("isOk", i, Undefined, "", "",
                  Effect(results, Return(Bool(isOk(results[i]))), <<>>))
        /\ UNCHANGED fresh

CallIsErr ==
    \E i \in DOMAIN results :
        /\ Commit("isErr", i, Undefined, "", "",
                  Effect(results, Return(Bool(isErr(results[i]))), <<>>))
        /\ UNCHANGED fresh

CallUnwrap ==
    \E i \in DOMAIN results :
        /\ Commit("unwrap", i, Undefined, "", "",
                  Effect(results, unwrap(results[i]), <<>>))
        /\ UNCHANGED fresh

CallUnwrapOr ==
    \E i \in DOMAIN results, f \in Payloads :
        /\ Commit("unwrapOr", i, f, "", "",
                  Effect(results, unwrapOr(results[i], f), <<>>))
        /\ UNCHANGED fresh

CallMatch ==
    \E i \in DOMAIN results, okFn \in MatchFns, errFn \in MatchFns :
        /\ Commit("match", i, Undefined, okFn, errFn,
                  match(results, results[i], okFn, errFn))
        /\ UNCHANGED fresh

CallMap ==
    \E i \in DOMAIN results, fn \in ValueFns :
        /\ Commit("map", i, Undefined, fn, "", map(results, results[i], fn))
        /\ UNCHANGED fresh

CallMapErr ==
    \E i \in DOMAIN results, fn \in ValueFns :
        /\ Commit("mapErr", i, Undefined, fn, "", mapErr(results, results[i], fn))
        /\ UNCHANGED fresh

CallAndThen ==
    \E i \in DOMAIN results, fn \in ResultFns :
        /\ Commit("andThen", i, Undefined, fn, "", andThen(results, results[i], fn))
        /\ UNCHANGED fresh

CallOrElse ==
    \E i \in DOMAIN results, fn \in ResultFns :
        /\ Commit("orElse", i, Undefined, fn, "", orElse(results, results[i], fn))
        /\ UNCHANGED fresh

CallAndTee ==
    \E i \in DOMAIN results, fn \in ValueFns :
        /\ Commit("andTee", i, Undefined, fn, "", andTee(results, results[i], fn))
        /\ UNCHANGED fresh

CallOrTee ==
    \E i \in DOMAIN results, fn \in ValueFns :
        /\ Commit("orTee", i, Undefined, fn, "", orTee(results, results[i], fn))
        /\ UNCHANGED fresh

CallSafeTrySync ==
    \E fn \in TryFns, fnErr \in MapErrorFns \cup {Absent} :
        /\ Len(wrappers) < MaxWrappers
        /\ wrappers' = Append(wrappers, safeTrySync(fn, fnErr))
        /\ last' = CallRecord("safeTrySync", 0, Undefined, fn, fnErr,
                              Return(FnRef(Len(wrappers) + 1)), <<>>)
        /\ UNCHANGED <<results, fresh, promises, asyncs, jobs, called>>

CallSafeTrySyncClosure ==
    \E w \in DOMAIN wrappers, arg \in Payloads :
        /\ Commit("safeTrySyncClosure", w, arg, wrappers[w].fn, wrappers[w].fnErr,
                  safeTrySyncClosure(results, wrappers[w], arg))
        /\ UNCHANGED fresh

Next ==
    \/ CallOkSync
    \/ CallErrSync
    \/ CallIsOk
    \/ CallIsErr
    \/ CallUnwrap
    \/ CallUnwrapOr
    \/ CallMatch
    \/ CallMap
    \/ CallMapErr
    \/ CallAndThen
    \/ CallOrElse
    \/ CallAndTee
    \/ CallOrTee
    \/ CallSafeTrySync
    \/ CallSafeTrySyncClosure

Spec == Init /\ [][Next]_vars

\* ========================================================================
\* ResultAsync (src/result/async/result-async.ts)
\* ========================================================================

\* Largest number of calls made on ResultAsync in one run.
MaxCalls == 3

\* Largest number of ResultSync instances built in one run of ResultAsync.
MaxAsyncResults == 2

\* References to the i-th promise and to the i-th ResultAsync instance.
PromiseRef(i) == JsValue("Promise", "", i, <<>>)

AsyncRef(i) == JsValue("ResultAsync", "", i, <<>>)

\* What `x.m()` throws when x has no property m.
NotAFunction == JsValue("TypeError", "is not a function", 0, <<>>)

\* ------------------------------------------------------------------------
\* Promises of the run time, as the source uses them: then, catch,
\* Promise.resolve, async functions.  A callback handed to then / catch is
\* a handler: which arrow function of the source it is (kind) and the
\* values that function closed over.
\* ------------------------------------------------------------------------

Handler(kind, fn, fn2, arg) == [kind |-> kind, fn |-> fn, fn2 |-> fn2, arg |-> arg]

\* An omitted callback of then / catch, and the resolving functions of a
\* promise: the settlement passes through to the target promise.
Pass == Handler("pass", "", "", Undefined)

\* One then(ful, rej) registered on a promise; target is the promise that
\* then returned.
Reaction(ful, rej, target) == [ful |-> ful, rej |-> rej, target |-> target]

\* A promise.  by, from, calls, ret, attached and saw are history: the
\* handler (or the factory) that settles it, the promise it was derived
\* from, the callbacks its handler invoked, what the continuation of
\* andThen / orElse completed as, the targets of the reactions registered
\* on it, in order, and the settlements reported to it as a target.
Promise(state, val, by, from) ==
    [state |-> state, val |-> val, reactions |-> <<>>,
     by |-> by, from |-> from, calls |-> <<>>, ret |-> <<>>,
     attached |-> <<>>, saw |-> <<>>]

\* The settlement of promise p, as reported to a reaction.
Outcome(p, state, val) == [of |-> p, state |-> state, val |-> val]

\* The two kinds of promise job: running a reaction of a settled promise,
\* and calling the then of a thenable a promise was resolved with.
ReactionJob(r, p, state, val) ==
    [kind |-> "reaction", handler |-> IF state = "fulfilled" THEN r.ful ELSE r.rej,
     state |-> state, arg |-> val, target |-> r.target, thenable |-> 0, of |-> p]

ThenableJob(target, thenable) ==
    [kind |-> "thenable", handler |-> Pass, state |-> "fulfilled",
     arg |-> Undefined, target |-> target, thenable |-> thenable, of |-> 0]

\* The whole heap during one synchronous run of code: ResultSync instances
\* (h), promises (ps), ResultAsync instances (as) and the job queue (q).
Machine(h, ps, as, q) == [h |-> h, ps |-> ps, as |-> as, q |-> q]

\* A machine after an expression was evaluated, and its completion.
Step(m, out) == [m |-> m, out |-> out]

NewPromise(m, by, from) ==
    [m EXCEPT !.ps = Append(@, Promise("pending", Undefined, by, from))]

\* Settling that queues the reactions last registered first.
SettlePromiseLastFirst(m, p, state, val) ==
    IF m.ps[p].state # "pending" THEN m
    ELSE LET rs == m.ps[p].reactions IN
         [m EXCEPT !.ps[p].state = state,
                   !.ps[p].val = val,
                   !.ps[p].reactions = <<>>,
                   !.q = @ \o [i \in 1..Len(rs) |->
                                  ReactionJob(rs[Len(rs) + 1 - i], p, state, val)]]

\* Fulfilling or rejecting promise p: its reactions become jobs, in the
\* order they were registered.  A settled promise stays as it is.
SettlePromise(m, p, state, val) ==
    IF m.ps[p].state # "pending" THEN m
    ELSE LET rs == m.ps[p].reactions IN
         [m EXCEPT !.ps[p].state = state,
                   !.ps[p].val = val,
                   !.ps[p].reactions = <<>>,
                   !.q = @ \o [i \in 1..Len(rs) |-> ReactionJob(rs[i], p, state, val)]]

IsThenable(v) == v.t \in {"Promise", "ResultAsync"}

\* The promise the then of thenable v registers on: v itself, or the
\* _promise of a ResultAsync (its then forwards to it).
ThenablePromise(m, v) == IF v.t = "Promise" THEN v.n ELSE m.as[v.n]

\* Resolving that fulfils with whatever it is given, a promise included.
ResolveWithoutFollowing(m, p, v) == SettlePromise(m, p, "fulfilled", v)

\* Resolving fulfils with a value that is not thenable and otherwise queues
\* a job that will follow the thenable.
ResolvePromise(m, p, v) ==
    IF IsThenable(v)
    THEN [m EXCEPT !.q = Append(@, ThenableJob(p, ThenablePromise(m, v)))]
    ELSE SettlePromise(m, p, "fulfilled", v)

\* Registering reaction r on promise p: kept while p is pending, a job at
\* once when p is settled.
\* A then that aborts the promise it is called on while that is pending.
PromiseThenAborting(m, p, r) ==
    IF m.ps[p].state = "pending"
    THEN SettlePromise([m EXCEPT !.ps[p].reactions = Append(@, r),
                                 !.ps[p].attached = Append(@, r.target)],
                       p, "rejected", Undefined)
    ELSE [m EXCEPT !.ps[p].attached = Append(@, r.target),
                   !.q = Append(@, ReactionJob(r, p, m.ps[p].state, m.ps[p].val))]

\* A then that registers its reaction twice.
PromiseThenTwice(m, p, r) ==
    IF m.ps[p].state = "pending"
    THEN [m EXCEPT !.ps[p].reactions = @ \o <<r, r>>,
                   !.ps[p].attached = Append(@, r.target)]
    ELSE [m EXCEPT !.ps[p].attached = Append(@, r.target),
                   !.q = @ \o <<ReactionJob(r, p, m.ps[p].state, m.ps[p].val),
                                ReactionJob(r, p, m.ps[p].state, m.ps[p].val)>>]

PromiseThen(m, p, r) ==
    IF m.ps[p].state = "pending"
    THEN [m EXCEPT !.ps[p].reactions = Append(@, r),
                   !.ps[p].attached = Append(@, r.target)]
    ELSE [m EXCEPT !.ps[p].attached = Append(@, r.target),
                   !.q = Append(@, ReactionJob(r, p, m.ps[p].state, m.ps[p].val))]

\* p.then(ful, rej): a new promise, settled by whichever callback runs.
Then(m, p, ful, rej) ==
    LET by == IF ful.kind # "pass" THEN ful ELSE rej IN
    Step(PromiseThen(NewPromise(m, by, p), p, Reaction(ful, rej, Len(m.ps) + 1)),
         Return(PromiseRef(Len(m.ps) + 1)))

\* Promise.resolve(v) / Promise.reject(v) of a value that is no promise.
Settled(m, state, v, by) ==
    Step(SettlePromise(NewPromise(m, by, 0), Len(m.ps) + 1, state, v),
         Return(PromiseRef(Len(m.ps) + 1)))

\* An async function whose body completed as s.out: it returns a new
\* promise, resolved with the value returned or rejected with the throw.
AsyncFunction(s, by, from) ==
    LET id == Len(s.m.ps) + 1
        m1 == NewPromise(s.m, by, from)
    IN  Step(IF s.out.kind = "throw"
             THEN SettlePromise(m1, id, "rejected", s.out.val)
             ELSE ResolvePromise(m1, id, s.out.val),
             Return(PromiseRef(id)))

\* ------------------------------------------------------------------------
\* What callers of ResultAsync supply.
\* ------------------------------------------------------------------------

AsyncPayloads == {Null, Str("a")}

\* Fallbacks handed to unwrapOr: a value no payload equals.
AsyncFallbacks == {Str("d")}

\* Error mappers handed to safeTry.
AsyncMapErrorFns == {"constA", "throwB"}

\* Callbacks of map / mapErr, and of match.
AsyncValueFns == {"constA", "throwB"}

AsyncMatchFns == {"id", "throwB"}

\* Callbacks of andTee / orTee: the one throwing a Symbol as well.
AsyncTeeFns == {"constA", "throwB", "throwSym"}

\* Continuations of andThen / orElse: returning a Result, a promise of a
\* Result or a ResultAsync, or throwing.
AsyncResultFns == {"toOk", "toErr", "toOkPromise", "toErrPromise",
                   "toOkAsync", "toErrAsync", "raiseB"}

\* Functions handed to safeTry: returning a promise already resolved or
\* rejected, throwing before returning one, or returning a promise that
\* settles later.
AsyncTryFns == {"resolves", "rejects", "throws", "defers"}

\* ------------------------------------------------------------------------
\* ResultAsync: constructor and static factories
\* ------------------------------------------------------------------------

\* constructor(_promise)
ResultAsync(m, p) ==
    Step([m EXCEPT !.as = Append(@, p)], Return(AsyncRef(Len(m.as) + 1)))

\* new ResultAsync(<expression>), s being the evaluated expression.
FromPromise(s) == ResultAsync(s.m, s.out.val.n)

toAsync(m, result) ==
    FromPromise(Settled(m, "fulfilled", result, Handler("toAsync", "", "", result)))

asyncOk(m, okValue) ==
    LET e == okSync(m.h, okValue) IN
    FromPromise(Settled([m EXCEPT !.h = e.h], "fulfilled", e.out.val,
                        Handler("ok", "", "", okValue)))

asyncErr(m, errorValue) ==
    LET e == errSync(m.h, errorValue) IN
    FromPromise(Settled([m EXCEPT !.h = e.h], "fulfilled", e.out.val,
                        Handler("err", "", "", errorValue)))

\* fn() of safeTry, v being the value fn closed over.
CallTry(m, fn, v) ==
    CASE fn = "resolves" -> Settled(m, "fulfilled", v, Handler("resolves", "", "", v))
      [] fn = "rejects"  -> Settled(m, "rejected", v, Handler("rejects", "", "", v))
      [] fn = "throws"   -> Step(m, Throw(v))
      [] fn = "defers"   -> Step(NewPromise(m, Handler("defers", "", "", Undefined), 0),
                                 Return(PromiseRef(Len(m.ps) + 1)))

\* fn() is called outside any try block: its throw is safeTry's throw.
safeTry(m, fn, fnErr, v) ==
    LET c == CallTry(m, fn, v) IN
    IF c.out.kind = "throw" THEN c
    ELSE LET t == Then(c.m, c.out.val.n, Handler("okSync", "", "", Undefined), Pass)
             k == Then(t.m, t.out.val.n, Pass, Handler("catch", fnErr, "", Undefined))
         IN  FromPromise(k)

\* ------------------------------------------------------------------------
\* ResultAsync: the arrow functions handed to then / catch
\* ------------------------------------------------------------------------

\* A handler's run: the machine it leaves, its completion, the callbacks
\* it invoked and, for andThen / orElse, what the continuation completed as.
HandlerStep(m, out, calls, ret) == [m |-> m, out |-> out, calls |-> calls, ret |-> ret]

\* A handler that is one call of a ResultSync method with effect e.
FromEffect(m, e) == HandlerStep([m EXCEPT !.h = e.h], e.out, e.calls, <<>>)

\* Calling continuation fn of andThen / orElse with x.
CallContinuation(m, fn, x) ==
    CASE fn = "toOkPromise" ->
            LET e == okSync(m.h, x) IN
            Settled([m EXCEPT !.h = e.h], "fulfilled", e.out.val,
                    Handler("Promise.resolve", "", "", Undefined))
      [] fn = "toErrPromise" ->
            LET e == errSync(m.h, x) IN
            Settled([m EXCEPT !.h = e.h], "fulfilled", e.out.val,
                    Handler("Promise.resolve", "", "", Undefined))
      [] fn = "toOkAsync"  -> asyncOk(m, x)
      [] fn = "toErrAsync" -> asyncErr(m, x)
      [] OTHER -> LET e == Call(m.h, fn, x) IN Step([m EXCEPT !.h = e.h], e.out)

\* const newValue = fn(x);
\* if (newValue instanceof ResultAsync) return newValue._promise;
\* return newValue;
Continue(m, fn, x) ==
    LET c == CallContinuation(m, fn, x) IN
    HandlerStep(c.m,
                IF c.out.kind = "return" /\ c.out.val.t = "ResultAsync"
                THEN Return(PromiseRef(c.m.as[c.out.val.n]))
                ELSE c.out,
                <<Invocation(fn, x)>>, <<c.out>>)

\* A short circuit that fails the derived promise with the payload.
ShortCircuitRejecting(m, status, x) ==
    LET a == AsyncFunction(Step(m, Throw(x)), Handler("async", "", "", Undefined), 0)
    IN  HandlerStep(a.m, a.out, <<>>, <<>>)

\* err: async (error) => errSync(error)  /  ok: async (ok) => okSync(ok)
ShortCircuit(m, status, x) ==
    LET e == IF status = ResultStatus.OK THEN okSync(m.h, x) ELSE errSync(m.h, x)
        a == AsyncFunction(Step([m EXCEPT !.h = e.h], e.out),
                           Handler("async", "", "", Undefined), 0)
    IN  HandlerStep(a.m, a.out, <<>>, <<>>)

\* (res) => res.match({ ok: ..., err: ... }) of andThen
andThenHandler(m, res, fn) ==
    IF isErr(res)
    THEN LET e == getErr(res) IN
         IF e.kind = "throw" THEN HandlerStep(m, e, <<>>, <<>>)
         ELSE ShortCircuit(m, ResultStatus.ERR, e.val)
    ELSE LET v == getOk(res) IN
         IF v.kind = "throw" THEN HandlerStep(m, v, <<>>, <<>>)
         ELSE Continue(m, fn, v.val)

\* An orElse that continues on OK and short-circuits on ERR.
orElseContinuingOnOk(m, res, fn) == andThenHandler(m, res, fn)

\* (res) => res.match({ ok: ..., err: ... }) of orElse
orElseHandler(m, res, fn) ==
    IF isErr(res)
    THEN LET e == getErr(res) IN
         IF e.kind = "throw" THEN HandlerStep(m, e, <<>>, <<>>)
         ELSE Continue(m, fn, e.val)
    ELSE LET v == getOk(res) IN
         IF v.kind = "throw" THEN HandlerStep(m, v, <<>>, <<>>)
         ELSE ShortCircuit(m, ResultStatus.OK, v.val)

\* (error) => { if (fnErr) return errSync(fnErr(error)); return errSync(error) }
catchHandler(m, fnErr, error) ==
    IF fnErr # Absent
    THEN LET c == Call(m.h, fnErr, error) IN
         FromEffect(m, WrapCall(c, errSync(c.h, c.out.val)))
    ELSE FromEffect(m, errSync(m.h, error))

\* Running handler hd with the value x its promise settled with.
RunHandler(m, hd, x) ==
    LET res == m.h[x.n] IN
    CASE hd.kind = "unwrap"   -> HandlerStep(m, unwrap(res), <<>>, <<>>)
      [] hd.kind = "unwrapOr" -> HandlerStep(m, unwrapOr(res, hd.arg), <<>>, <<>>)
      [] hd.kind = "match"    -> FromEffect(m, match(m.h, res, hd.fn, hd.fn2))
      [] hd.kind = "map"      -> FromEffect(m, map(m.h, res, hd.fn))
      [] hd.kind = "mapErr"   -> FromEffect(m, mapErr(m.h, res, hd.fn))
      [] hd.kind = "andTee"   -> FromEffect(m, andTee(m.h, res, hd.fn))
      [] hd.kind = "orTee"    -> FromEffect(m, orTee(m.h, res, hd.fn))
      [] hd.kind = "andThen"  -> andThenHandler(m, res, hd.fn)
      [] hd.kind = "orElse"   -> orElseHandler(m, res, hd.fn)
      [] hd.kind = "okSync"   -> FromEffect(m, okSync(m.h, x))
      [] hd.kind = "catch"    -> catchHandler(m, hd.fn, x)

\* ------------------------------------------------------------------------
\* ResultAsync: methods
\* ------------------------------------------------------------------------

\* The methods the class defines.
ResultAsyncMethods ==
    {"then", "unwrap", "unwrapOr", "match", "map", "mapErr",
     "andThen", "orElse", "andTee", "orTee"}

\* The accessors a caller may try on a ResultAsync.
Accessors == {"isOk", "isErr", "unwrap", "unwrapOr", "match"}

\* async op() { return this._promise.then(hd) }
Accessor(m, a, hd) ==
    LET t == Then(m, m.as[a], hd, Pass) IN
    AsyncFunction(t, Handler("async", "", "", Undefined), t.out.val.n)

asyncUnwrap(m, a) == Accessor(m, a, Handler("unwrap", "", "", Undefined))

asyncUnwrapOr(m, a, value) == Accessor(m, a, Handler("unwrapOr", "", "", value))

asyncMatch(m, a, okFn, errFn) == Accessor(m, a, Handler("match", okFn, errFn, Undefined))

\* A combinator that wraps the promise of its receiver once more.
DeriveSharing(m, a, hd) == ResultAsync(Then(m, m.as[a], hd, Pass).m, m.as[a])

\* op(fn) { return new ResultAsync(this._promise.then(hd)) }
Derive(m, a, hd) == FromPromise(Then(m, m.as[a], hd, Pass))

asyncMap(m, a, fn) == Derive(m, a, Handler("map", fn, "", Undefined))

asyncMapErr(m, a, fn) == Derive(m, a, Handler("mapErr", fn, "", Undefined))

asyncAndThen(m, a, fn) == Derive(m, a, Handler("andThen", fn, "", Undefined))

asyncOrElse(m, a, fn) == Derive(m, a, Handler("orElse", fn, "", Undefined))

asyncAndTee(m, a, fn) == Derive(m, a, Handler("andTee", fn, "", Undefined))

asyncOrTee(m, a, fn) == Derive(m, a, Handler("orTee", fn, "", Undefined))

\* `await a`: the promise the run time resolves with a, a thenable, and
\* whose fulfilment resumes the awaiting function.
await(m, a) ==
    LET id == Len(m.ps) + 1 IN
    Step(ResolvePromise(NewPromise(m, Handler("await", "", "", Undefined), m.as[a]),
                        id, AsyncRef(a)),
         Return(PromiseRef(id)))

\* a.op(...) for an accessor name: a name the class does not define reads
\* as undefined, and calling undefined throws.
CallMethod(m, a, op, fn, fn2, arg) ==
    IF op \notin ResultAsyncMethods THEN Step(m, Throw(NotAFunction))
    ELSE CASE op = "unwrap"   -> asyncUnwrap(m, a)
           [] op = "unwrapOr" -> asyncUnwrapOr(m, a, arg)
           [] op = "match"    -> asyncMatch(m, a, fn, fn2)

\* ------------------------------------------------------------------------
\* Promise jobs
\* ------------------------------------------------------------------------

\* One job of the queue, run to completion.
PromiseJob(m, j) ==
    IF j.kind = "thenable"
    THEN PromiseThen(m, j.thenable, Reaction(Pass, Pass, j.target))
    ELSE LET m0 == [m EXCEPT !.ps[j.target].saw =
                                 Append(@, Outcome(j.of, j.state, j.arg))]
         IN
         IF j.handler.kind = "pass"
         THEN IF j.state = "fulfilled"
              THEN ResolvePromise(m0, j.target, j.arg)
              ELSE SettlePromise(m0, j.target, "rejected", j.arg)
         ELSE LET r == RunHandler(m0, j.handler, j.arg)
                  m1 == [r.m EXCEPT !.ps[j.target].calls = @ \o r.calls,
                                    !.ps[j.target].ret = @ \o r.ret]
              IN  IF r.out.kind = "throw"
                  THEN SettlePromise(m1, j.target, "rejected", r.out.val)
                  ELSE ResolvePromise(m1, j.target, r.out.val)

\* ------------------------------------------------------------------------
\* State machine of ResultAsync
\* ------------------------------------------------------------------------

Current == Machine(results, promises, asyncs, jobs)

Install(m) ==
    /\ Len(m.h) <= MaxAsyncResults
    /\ results' = m.h
    /\ promises' = m.ps
    /\ asyncs' = m.as
    /\ jobs' = m.q

\* A call by the caller's code, completing as s.out.
CommitAsync(op, recv, arg, fn, fn2, s) ==
    /\ called < MaxCalls
    /\ called' = called + 1
    /\ Install(s.m)
    /\ last' = CallRecord(op, recv, arg, fn, fn2, s.out, <<>>)

AsyncOk ==
    \E v \in AsyncPayloads :
        /\ CommitAsync("ok", 0, v, "", "", asyncOk(Current, v))
        /\ UNCHANGED <<wrappers, fresh>>

AsyncErr ==
    \E e \in AsyncPayloads :
        /\ CommitAsync("err", 0, e, "", "", asyncErr(Current, e))
        /\ UNCHANGED <<wrappers, fresh>>

AsyncToAsync ==
    \E i \in DOMAIN results :
        /\ CommitAsync("toAsync", i, Ref(i), "", "", toAsync(Current, Ref(i)))
        /\ UNCHANGED <<wrappers, fresh>>

AsyncSafeTry ==
    \E fn \in AsyncTryFns, fnErr \in AsyncMapErrorFns \cup {Absent} :
        \E v \in (IF fn = "defers" THEN {Undefined} ELSE AsyncPayloads) :
            /\ CommitAsync("safeTry", 0, v, fn, fnErr, safeTry(Current, fn, fnErr, v))
            /\ UNCHANGED <<wrappers, fresh>>

\* The promise a function handed to safeTry returned settles: an event
\* from outside (a timer, a reply), which the run time delivers only when
\* no promise job is waiting.
SettleDeferred ==
    \E p \in DOMAIN promises, state \in {"fulfilled", "rejected"}, v \in AsyncPayloads :
        /\ jobs = <<>>
        /\ promises[p].by.kind = "defers"
        /\ promises[p].state = "pending"
        /\ Install(SettlePromise(Current, p, state, v))
        /\ UNCHANGED <<wrappers, last, fresh, called>>

AsyncAccessor ==
    \E a \in DOMAIN asyncs, op \in Accessors :
        \E fn \in (IF op = "match" THEN AsyncMatchFns ELSE {""}),
           fn2 \in (IF op = "match" THEN AsyncMatchFns ELSE {""}),
           arg \in (IF op = "unwrapOr" THEN AsyncFallbacks ELSE {Undefined}) :
            /\ CommitAsync(op, a, arg, fn, fn2, CallMethod(Current, a, op, fn, fn2, arg))
            /\ UNCHANGED <<wrappers, fresh>>

AsyncMap ==
    \E a \in DOMAIN asyncs, fn \in AsyncValueFns :
        /\ CommitAsync("map", a, Undefined, fn, "", asyncMap(Current, a, fn))
        /\ UNCHANGED <<wrappers, fresh>>

AsyncMapErr ==
    \E a \in DOMAIN asyncs, fn \in AsyncValueFns :
        /\ CommitAsync("mapErr", a, Undefined, fn, "", asyncMapErr(Current, a, fn))
        /\ UNCHANGED <<wrappers, fresh>>

AsyncAndThen ==
    \E a \in DOMAIN asyncs, fn \in AsyncResultFns :
        /\ CommitAsync("andThen", a, Undefined, fn, "", asyncAndThen(Current, a, fn))
        /\ UNCHANGED <<wrappers, fresh>>

AsyncOrElse ==
    \E a \in DOMAIN asyncs, fn \in AsyncResultFns :
        /\ CommitAsync("orElse", a, Undefined, fn, "", asyncOrElse(Current, a, fn))
        /\ UNCHANGED <<wrappers, fresh>>

AsyncAndTee ==
    \E a \in DOMAIN asyncs, fn \in AsyncTeeFns :
        /\ CommitAsync("andTee", a, Undefined, fn, "", asyncAndTee(Current, a, fn))
        /\ UNCHANGED <<wrappers, fresh>>

AsyncOrTee ==
    \E a \in DOMAIN asyncs, fn \in AsyncTeeFns :
        /\ CommitAsync("orTee", a, Undefined, fn, "", asyncOrTee(Current, a, fn))
        /\ UNCHANGED <<wrappers, fresh>>

AsyncAwait ==
    \E a \in DOMAIN asyncs :
        /\ CommitAsync("await", a, Undefined, "", "", await(Current, a))
        /\ UNCHANGED <<wrappers, fresh>>

\* The run time takes the oldest job off the queue and runs it.
RunJob ==
    /\ jobs # <<>>
    /\ Install(PromiseJob(Machine(results, promises, asyncs, Tail(jobs)), Head(jobs)))
    /\ UNCHANGED <<wrappers, last, fresh, called>>

NextAsync ==
    \/ AsyncOk
    \/ AsyncErr
    \/ AsyncToAsync
    \/ AsyncSafeTry
    \/ SettleDeferred
    \/ AsyncAccessor
    \/ AsyncMap
    \/ AsyncMapErr
    \/ AsyncAndThen
    \/ AsyncOrElse
    \/ AsyncAndTee
    \/ AsyncOrTee
    \/ AsyncAwait
    \/ RunJob

SpecAsync == Init /\ [][NextAsync]_vars

\* ------------------------------------------------------------------------
\* Vocabulary of the properties
\* ------------------------------------------------------------------------

\* The last call returned a value of type t.
Returned(t) == last.out.kind = "return" /\ last.out.val.t = t

\* The instance the last call returned, and the instance it was called on.
Out == results[last.out.val.n]

Recv == results[last.recv]

\* The last call was made on okSync(v) / errSync(e) as the caller built it;
\* fresh.given is that v or e.
OnFresh(by) == last.recv = fresh.id /\ fresh.by = by

\* r is an OK (ERR) Result carrying x.
CarriesOk(r, x) == r.status = ResultStatus.OK /\ r.ok = x

CarriesErr(r, x) == r.status = ResultStatus.ERR /\ r.err = x

\* The last call returned an OK (ERR) Result carrying x.
ReturnedOk(x) == Returned("ResultSync") /\ CarriesOk(Out, x)

ReturnedErr(x) == Returned("ResultSync") /\ CarriesErr(Out, x)

\* What callback fn does when called with x.
Does(fn, x) == Call(<<>>, fn, x).out

\* ------------------------------------------------------------------------
\* C1  okSync(v): isOk() is true, isErr() is false, unwrap() returns v,
\*     for every payload v, null and undefined included.
\* ------------------------------------------------------------------------

C1_Case == OnFresh("okSync") /\ last.op \in {"isOk", "isErr", "unwrap"}

C1_Holds ==
    /\ last.op = "isOk" => last.out = Return(Bool(TRUE))
    /\ last.op = "isErr" => last.out = Return(Bool(FALSE))
    /\ last.op = "unwrap" => last.out = Return(fresh.given)

\* C1 as claimed: isOk, isErr and unwrap of okSync(v) give true, false and
\* exactly v for every payload v.
C1_OkSyncUnwrapsToPayload == C1_Case => C1_Holds

\* C1 for the payloads other than null and undefined.
C1_OkSyncUnwrapsToDefinedPayload ==
    (C1_Case /\ ~Nullish(fresh.given)) => C1_Holds

\* okSync(null).unwrap() has returned.
C1_NullUnwrapped ==
    C1_Case /\ last.op = "unwrap" /\ fresh.given = Null

\* ------------------------------------------------------------------------
\* C2  errSync(e): isErr() is true, isOk() is false, unwrap() throws e,
\*     for every error e, null and undefined included.
\* ------------------------------------------------------------------------

C2_Case == OnFresh("errSync") /\ last.op \in {"isOk", "isErr", "unwrap"}

C2_Holds ==
    /\ last.op = "isOk" => last.out = Return(Bool(FALSE))
    /\ last.op = "isErr" => last.out = Return(Bool(TRUE))
    /\ last.op = "unwrap" => last.out = Throw(fresh.given)

\* C2 as claimed: isErr and isOk of errSync(e) give true and false, and
\* unwrap throws exactly e, for every error e.
C2_ErrSyncUnwrapThrowsPayload == C2_Case => C2_Holds

\* C2 for the errors other than null and undefined.
C2_ErrSyncUnwrapThrowsDefinedPayload ==
    (C2_Case /\ ~Nullish(fresh.given)) => C2_Holds

\* ------------------------------------------------------------------------
\* C3  Every reachable Result has exactly one populated slot, and it is the
\*     slot its status names.
\* ------------------------------------------------------------------------

Populated(x) == x # ResultEmpty

SlotsAgree(r) ==
    /\ Populated(r.ok) # Populated(r.err)
    /\ Populated(r.ok) <=> r.status = ResultStatus.OK

\* C3 as claimed: in every Result on the heap exactly one of ok / err is
\* populated, and ok is populated iff status is OK.
C3_ExactlyOneSlotPopulated == \A i \in DOMAIN results : SlotsAgree(results[i])

\* Neither slot is ever populated against the status, and never both.
C3_NoSlotPopulatedAgainstStatus ==
    \A i \in DOMAIN results :
        /\ Populated(results[i].ok) => results[i].status = ResultStatus.OK
        /\ Populated(results[i].err) => results[i].status = ResultStatus.ERR

\* ------------------------------------------------------------------------
\* C4  safeTrySync(fn, mapError?) executes fn and itself yields a Result:
\*     OK with fn's value, or ERR with mapError(r) / the raw raise r.
\* ------------------------------------------------------------------------

\* The Result safeTrySync is claimed to yield for fn called with x.
C4_Yields(fn, fnErr, x) ==
    LET c == Does(fn, x) IN
    IF c.kind = "return"
    THEN /\ ReturnedOk(c.val)
         /\ last.calls = <<Invocation(fn, x)>>
    ELSE IF fnErr = Absent
         THEN /\ ReturnedErr(c.val)
              /\ last.calls = <<Invocation(fn, x)>>
         ELSE LET m == Does(fnErr, c.val) IN
              /\ m.kind = "return" => ReturnedErr(m.val)
              /\ last.calls = <<Invocation(fn, x), Invocation(fnErr, c.val)>>

\* C4 as claimed: the call safeTrySync(fn, mapError) has run fn and its
\* return value is the Result of that run.
C4_SafeTrySyncYieldsResult ==
    last.op = "safeTrySync" => C4_Yields(last.fn, last.fn2, Undefined)

\* The closure safeTrySync returns yields that Result once it is called,
\* for a value or raise of fn other than null and undefined.
C4_ClosureYieldsResult ==
    (last.op = "safeTrySyncClosure" /\ ~Nullish(Does(last.fn, last.arg).val))
        => C4_Yields(last.fn, last.fn2, last.arg)


\* ------------------------------------------------------------------------
\* C5  map applies fn exactly on OK, yielding ok(fn(v)); on ERR it returns
\*     an ERR carrying e and does not call fn.  mapErr is the mirror image.
\* ------------------------------------------------------------------------

C5_Case == last.op \in {"map", "mapErr"} /\ fresh.by \in {"okSync", "errSync"} /\ OnFresh(fresh.by)

\* The callback applies to this branch.
C5_Matching == (last.op = "map") <=> (fresh.by = "okSync")

C5_Holds ==
    LET v == fresh.given
        c == Does(last.fn, v)
    IN  IF C5_Matching
        THEN /\ last.calls = <<Invocation(last.fn, v)>>
             /\ c.kind = "return" =>
                    IF last.op = "map" THEN ReturnedOk(c.val) ELSE ReturnedErr(c.val)
        ELSE /\ last.calls = <<>>
             /\ IF last.op = "map" THEN ReturnedErr(v) ELSE ReturnedOk(v)

\* C5 as claimed: okSync(v).map(fn) is ok(fn(v)) with fn called on v,
\* errSync(e).map(fn) is an ERR carrying e with fn not called, and
\* symmetrically for mapErr.
C5_MapAppliesOnItsBranchOnly == C5_Case => C5_Holds

\* C5 when neither the payload nor the callback's value is null or undefined.
C5_MapOnDefinedPayloads ==
    (C5_Case /\ ~Nullish(fresh.given) /\ ~Nullish(Does(last.fn, fresh.given).val))
        => C5_Holds

\* ------------------------------------------------------------------------
\* C6  errSync(e).andThen(fn) is an ERR carrying e and fn is not called;
\*     okSync(v).orElse(fn) is an OK carrying v and fn is not called.
\* ------------------------------------------------------------------------

C6_Case ==
    \/ last.op = "andThen" /\ OnFresh("errSync")
    \/ last.op = "orElse" /\ OnFresh("okSync")

C6_Holds ==
    /\ last.calls = <<>>
    /\ IF last.op = "andThen" THEN ReturnedErr(fresh.given) ELSE ReturnedOk(fresh.given)

\* C6 as claimed: the short-circuit returns a Result carrying the original
\* payload and never calls fn.
C6_ShortCircuitCarriesPayload == C6_Case => C6_Holds

\* C6 for the payloads other than null and undefined.
C6_ShortCircuitCarriesDefinedPayload ==
    (C6_Case /\ ~Nullish(fresh.given)) => C6_Holds

\* The short-circuit never calls fn, whatever the payload.
C6_ShortCircuitNeverCalls == C6_Case => last.calls = <<>>

\* ------------------------------------------------------------------------
\* C7  okSync(v).andThen(fn) calls fn once with v and returns what fn
\*     returned; errSync(e).orElse(fn) likewise with e.
\* ------------------------------------------------------------------------

\* The step is andThen on okSync(v) or orElse on errSync(e).
C7_Step ==
    /\ last'.recv = fresh.id
    /\ \/ last'.op = "andThen" /\ fresh.by = "okSync"
       \/ last'.op = "orElse" /\ fresh.by = "errSync"

\* The step is exactly one call of fn with x: same heap, same completion.
C7_IsCallOf(x) ==
    LET c == Call(results, last'.fn, x) IN
    /\ last'.calls = <<Invocation(last'.fn, x)>>
    /\ last'.out = c.out
    /\ results' = c.h

\* C7 as claimed: on the matching branch the continuation is called exactly
\* once with the payload and its Result is the outcome.
C7_ContinuationIsOutcome == [][C7_Step => C7_IsCallOf(fresh.given)]_vars

\* C7 for the payloads other than null and undefined.
C7_ContinuationOnDefinedPayload ==
    [][(C7_Step /\ ~Nullish(fresh.given)) => C7_IsCallOf(fresh.given)]_vars

\* ------------------------------------------------------------------------
\* C8  andTee / orTee call fn once with the payload on the matching branch
\*     and not at all on the other, and return a Result carrying the
\*     payload whatever fn returns.
\* ------------------------------------------------------------------------

C8_Case == last.op \in {"andTee", "orTee"} /\ fresh.by \in {"okSync", "errSync"} /\ OnFresh(fresh.by)

C8_Matching == (last.op = "andTee") <=> (fresh.by = "okSync")

C8_Holds ==
    LET v == fresh.given IN
    /\ last.calls = IF C8_Matching THEN <<Invocation(last.fn, v)>> ELSE <<>>
    /\ (C8_Matching => Does(last.fn, v).kind = "return") =>
           IF fresh.by = "okSync" THEN ReturnedOk(v) ELSE ReturnedErr(v)

\* C8 as claimed: the tee observes the payload once on its branch, never on
\* the other, and the Result returned carries the payload unchanged.
C8_TeePreservesPayload == C8_Case => C8_Holds

\* C8 for the payloads other than null and undefined.
C8_TeePreservesDefinedPayload == (C8_Case /\ ~Nullish(fresh.given)) => C8_Holds

\* ------------------------------------------------------------------------
\* C9  A tee callback raising x makes the combinator throw a
\*     NoThrowAllowedError whose cause is x; no Result is returned.
\* ------------------------------------------------------------------------

\* The tee's callback was called and raised.
C9_Case ==
    /\ last.op \in {"andTee", "orTee"}
    /\ last.calls # <<>>
    /\ Does(last.fn, last.calls[1].arg).kind = "throw"

C9_Raised == Does(last.fn, last.calls[1].arg).val

C9_Holds ==
    /\ last.out.kind = "throw"
    /\ last.out.val.t = "NoThrowAllowedError"
    /\ last.out.val.c = <<C9_Raised>>

\* C9 as claimed: whatever x the callback raises, the tee throws a
\* NoThrowAllowedError with cause x.
C9_TeeRaiseBecomesNoThrowAllowed == C9_Case => C9_Holds

\* C9 for the raised values a template literal can convert to a string.
C9_TeeRaiseOfPrintableBecomesNoThrowAllowed ==
    (C9_Case /\ CanInterpolate(C9_Raised)) => C9_Holds

\* A raising tee callback never yields a Result.
C9_TeeRaiseNeverReturns == C9_Case => last.out.kind = "throw"

\* ------------------------------------------------------------------------
\* C10 unwrap of an ERR Result throws the held error, or an ImposibleError
\*     when the err slot holds the sentinel; it never throws the sentinel.
\* ------------------------------------------------------------------------

C10_Case == last.op = "unwrap" /\ isErr(Recv)

C10_Holds ==
    /\ last.out.kind = "throw"
    /\ last.out.val # ResultEmpty
    /\ IF Populated(Recv.err) THEN last.out.val = Recv.err
       ELSE last.out.val.t = "ImposibleError"

\* C10 as claimed: unwrap on ERR throws the held error, and an
\* ImposibleError (never the sentinel) when the err slot is empty.
C10_UnwrapErrNeverThrowsSentinel == C10_Case => C10_Holds

\* unwrap on ERR always throws, and throws the content of the err slot.
C10_UnwrapErrThrowsSlot ==
    C10_Case => last.out = Throw(Recv.err)


\* ------------------------------------------------------------------------
\* C11 The sentinel is never exposed: unwrap / unwrapOr never return it,
\*     unwrap never throws it, and no callback is called with it.
\* ------------------------------------------------------------------------

\* The last call handed the sentinel to its caller or to a callback.
C11_Exposed ==
    \/ last.op \in {"unwrap", "unwrapOr"} /\ last.out.val = ResultEmpty
    \/ \E k \in DOMAIN last.calls : last.calls[k].arg = ResultEmpty

\* C11 as claimed: with callers never passing the sentinel, no accessor
\* returns or throws it and no callback receives it.
C11_SentinelNeverExposed == ~C11_Exposed

\* The sentinel only ever comes out of an instance both of whose slots are
\* empty, that is one built from a null or undefined payload.
C11_SentinelOnlyFromEmptyInstance ==
    C11_Exposed => (last.recv \in DOMAIN results /\ ~SlotsAgree(Recv))

\* ------------------------------------------------------------------------
\* C12 Results are immutable: every combinator returns a new instance and
\*     no call changes the status or the slots of an existing instance.
\* ------------------------------------------------------------------------

Combinators == {"map", "mapErr", "andThen", "orElse", "andTee", "orTee"}

\* No instance that exists before the step is changed by it.
C12_Frame ==
    \A i \in DOMAIN results : i \in DOMAIN results' /\ results'[i] = results[i]

\* The step is a combinator call that returned an instance.
C12_CombinatorReturned ==
    /\ last'.op \in Combinators
    /\ last'.out.kind = "return"
    /\ last'.out.val.t = "ResultSync"

\* The instance the step returned did not exist before it.
C12_ReturnedNew == last'.out.val.n \notin DOMAIN results

\* The step ran the continuation of andThen / orElse.
C12_RanContinuation == last'.op \in {"andThen", "orElse"} /\ last'.calls # <<>>

C13_Case == last.op = "match" /\ fresh.by \in {"okSync", "errSync"} /\ OnFresh(fresh.by)

\* The function match has to choose: last.fn is ok, last.fn2 is err.
C13_Chosen == IF fresh.by = "okSync" THEN last.fn ELSE last.fn2

C13_Holds ==
    /\ last.calls = <<Invocation(C13_Chosen, fresh.given)>>
    /\ last.out = Does(C13_Chosen, fresh.given)

\* C13 as claimed: okSync(v).match calls ok once with v, errSync(e).match
\* calls err once with e, and the call completes as that function did.
C13_MatchCallsChosenWithPayload == C13_Case => C13_Holds

\* C13 for the payloads other than null and undefined.
C13_MatchCallsChosenWithDefinedPayload ==
    (C13_Case /\ ~Nullish(fresh.given)) => C13_Holds

\* match calls exactly one function, the one the status names, exactly once.
C13_MatchCallsExactlyOne ==
    C13_Case => (Len(last.calls) = 1 /\ last.calls[1].fn = C13_Chosen)

\* ------------------------------------------------------------------------
\* C14 unwrapOr never fails: it returns the success value on OK and the
\*     fallback on ERR.
\* ------------------------------------------------------------------------

C14_Case == last.op = "unwrapOr" /\ fresh.by \in {"okSync", "errSync"} /\ OnFresh(fresh.by)

C14_Holds ==
    last.out = Return(IF fresh.by = "okSync" THEN fresh.given ELSE last.arg)

\* C14 as claimed: okSync(v).unwrapOr(f) returns v and errSync(e).unwrapOr(f)
\* returns f, without throwing.
C14_UnwrapOrReturnsValueOrFallback == C14_Case => C14_Holds

\* C14 for the payloads other than null and undefined.
C14_UnwrapOrReturnsDefinedValueOrFallback ==
    (C14_Case /\ ~Nullish(fresh.given)) => C14_Holds

\* unwrapOr never throws, on any instance.
C14_UnwrapOrNeverThrows == last.op = "unwrapOr" => last.out.kind = "return"

\* ------------------------------------------------------------------------
\* C15 Identity laws: okSync(v).map(id) equals okSync(v) and
\*     errSync(e).mapErr(id) equals errSync(e), slot by slot.
\* ------------------------------------------------------------------------

C15_Case ==
    /\ last.fn = "id"
    /\ \/ last.op = "map" /\ OnFresh("okSync")
       \/ last.op = "mapErr" /\ OnFresh("errSync")

\* C15: mapping the identity over okSync(v) / errSync(e) returns a Result
\* with the same status, ok slot and err slot as okSync(v) / errSync(e).
C15_IdentityLaws ==
    C15_Case =>
        /\ Returned("ResultSync")
        /\ Out = Recv
        /\ Out = IF last.op = "map"
                 THEN ResultSync(ResultStatus.OK, fresh.given, Undefined)
                 ELSE ResultSync(ResultStatus.ERR, Undefined, fresh.given)

\* okSync('a').map(id) and errSync(null).mapErr(id) have returned.
C15_IdentityMapped ==
    /\ C15_Case
    /\ Returned("ResultSync")
    /\ \/ last.op = "map" /\ fresh.given = Str("a")
       \/ last.op = "mapErr" /\ fresh.given = Null

\* ------------------------------------------------------------------------
\* C16 isOk() and isErr() are mutually exclusive and jointly exhaustive,
\*     and their answers never change over the life of an instance.
\* ------------------------------------------------------------------------

\* What isOk() / isErr() answered in the step is exactly one `true`.
C16_AnswersOppose ==
    /\ last'.op = "isOk" =>
           last'.out = Return(Bool(~isErr(results'[last'.recv])))
    /\ last'.op = "isErr" =>
           last'.out = Return(Bool(~isOk(results'[last'.recv])))

\* C16: on every instance exactly one of isOk / isErr is true, a call of
\* either answers accordingly, and no step changes the answer.
C16_ExactlyOneOfIsOkIsErr ==
    [][/\ \A i \in DOMAIN results' : isOk(results'[i]) # isErr(results'[i])
       /\ \A i \in DOMAIN results :
              /\ i \in DOMAIN results'
              /\ isOk(results'[i]) = isOk(results[i])
              /\ isErr(results'[i]) = isErr(results[i])
       /\ C16_AnswersOppose]_vars

\* isErr() answered true on an instance that other calls were made on since
\* it was built, with a second instance on the heap.
C16_IsErrAnsweredTrue ==
    /\ last.op = "isErr"
    /\ last.out = Return(Bool(TRUE))
    /\ Len(results) = 2

\* ------------------------------------------------------------------------
\* Vocabulary of the ResultAsync properties
\* ------------------------------------------------------------------------

IsSettled(p) == promises[p].state # "pending"

\* Promise p settled the way completion c says: fulfilled with the value
\* returned, or rejected with the value thrown.
SettledAs(p, c) ==
    /\ promises[p].state = IF c.kind = "return" THEN "fulfilled" ELSE "rejected"
    /\ promises[p].val = c.val

\* The promises the accessors returned to their callers.
AccessorPromises ==
    {p \in DOMAIN promises : promises[p].by.kind = "async" /\ promises[p].from # 0}

\* What the ResultSync accessor named by handler hd gives on res.
SyncAccessor(hd, res) ==
    CASE hd.kind = "unwrap"   -> unwrap(res)
      [] hd.kind = "unwrapOr" -> unwrapOr(res, hd.arg)
      [] hd.kind = "match"    -> match(results, res, hd.fn, hd.fn2).out

\* ------------------------------------------------------------------------
\* C17 Every accessor of ResultAsync - isOk, isErr, unwrap, unwrapOr and
\*     match - exists and returns a promise that settles only after the
\*     underlying promise settled, to what the same accessor of the settled
\*     ResultSync gives.
\* ------------------------------------------------------------------------

C17_Case == last.op \in Accessors /\ last.recv \in DOMAIN asyncs /\ called > 0

\* Accessor promise p is pending while the underlying promise is, and once
\* settled it is fulfilled with what the ResultSync accessor returns or
\* rejected with what it throws; a rejected underlying promise rejects it.
C17_FollowsUnderlying(p) ==
    LET i == promises[p].from
        u == promises[i].from
    IN  IsSettled(p) =>
            /\ IsSettled(u)
            /\ IF promises[u].state = "fulfilled"
               THEN SettledAs(p, SyncAccessor(promises[i].by, results[promises[u].val.n]))
               ELSE SettledAs(p, Throw(promises[u].val))

\* C17: a call of any of the five accessors returns a promise, and every
\* promise an accessor returned follows the underlying promise.
C17_AccessorsExistAndFollowUnderlying ==
    /\ C17_Case => Returned("Promise")
    /\ \A p \in AccessorPromises : C17_FollowsUnderlying(p)

\* The same for the accessors the class defines: unwrap, unwrapOr, match.
C17_DefinedAccessorsFollowUnderlying ==
    /\ (C17_Case /\ last.op \in ResultAsyncMethods) => Returned("Promise")
    /\ \A p \in AccessorPromises : C17_FollowsUnderlying(p)

\* isOk and isErr are not methods of the class: calling them throws.
C17_IsOkIsErrThrow ==
    (C17_Case /\ last.op \in {"isOk", "isErr"}) => last.out = Throw(NotAFunction)

\* An accessor promise was rejected, and another fulfilled.
C17_AccessorSettled ==
    /\ \E p \in AccessorPromises : promises[p].state = "rejected"
    /\ \E p \in AccessorPromises : promises[p].state = "fulfilled"

\* ------------------------------------------------------------------------
\* C18 safeTry(fn, mapError?) never lets a failure of fn escape as a throw:
\*     whether fn throws while being called or returns a promise that
\*     rejects, with r, safeTry returns a ResultAsync that resolves to an
\*     ERR Result carrying mapError(r), or r without mapError; if fn's
\*     promise resolves to x it resolves to an OK Result carrying x.
\* ------------------------------------------------------------------------

C18_Case == last.op = "safeTry"

\* The promises safeTry wrapped: those its catch(...) returned.
C18_Wrapped == {k \in DOMAIN promises : promises[k].by.kind = "catch"}

\* The promise fn returned, for such a promise.
C18_Source(k) == promises[promises[k].from].from

\* The error the ERR Result is to carry when fn failed with r.
C18_Mapped(k, r) ==
    IF promises[k].by.fn # Absent THEN Does(promises[k].by.fn, r).val ELSE r

\* Once settled, k is fulfilled with an OK Result carrying what fn's
\* promise resolved to, or an ERR Result carrying what it rejected with,
\* mapped.
C18_Captured(k) ==
    LET p == C18_Source(k) IN
    IsSettled(k) =>
        /\ IsSettled(p)
        /\ promises[k].state = "fulfilled"
        /\ promises[k].val.t = "ResultSync"
        /\ IF promises[p].state = "fulfilled"
           THEN CarriesOk(results[promises[k].val.n], promises[p].val)
           ELSE CarriesErr(results[promises[k].val.n], C18_Mapped(k, promises[p].val))

\* C18: a call of safeTry returns a ResultAsync, whatever fn does, and the
\* promise it wraps captures the outcome of fn.
C18_SafeTryCapturesEveryFailure ==
    /\ C18_Case => Returned("ResultAsync")
    /\ \A k \in C18_Wrapped : C18_Captured(k)

\* A throw of fn, made before it returned a promise, is the throw of the
\* call of safeTry itself.
C18_SynchronousThrowEscapes ==
    (C18_Case /\ last.fn = "throws") => last.out = Throw(last.arg)

\* When fn returns a promise, safeTry returns a ResultAsync, and that
\* captures every resolution and rejection whose value reaches the Result:
\* a value that is not null or undefined, or one mapError replaces without
\* raising.
C18_ReturnedPromiseIsCaptured ==
    /\ (C18_Case /\ last.fn # "throws") => Returned("ResultAsync")
    /\ \A k \in C18_Wrapped :
           LET p == C18_Source(k) IN
           (\/ promises[p].state = "pending"
            \/ promises[p].state = "fulfilled" /\ ~Nullish(promises[p].val)
            \/ promises[p].state = "rejected"
                   /\ ~Nullish(C18_Mapped(k, promises[p].val))
                   /\ (promises[k].by.fn # Absent =>
                           Does(promises[k].by.fn, promises[p].val).kind = "return"))
               => C18_Captured(k)

\* ------------------------------------------------------------------------
\* C19 Async andThen / orElse chain and short-circuit like the synchronous
\*     ones: ok(v).andThen(fn).unwrap() resolves to the success value of
\*     fn(v) and rejects with fn(v)'s error if fn(v) is an ERR;
\*     err(e).andThen(fn).unwrap() rejects carrying e and fn is never
\*     invoked; ok(v).orElse(fn).unwrap() resolves to v without invoking
\*     fn and err(e).orElse(fn) settles to the outcome of fn(e).
\* ------------------------------------------------------------------------

\* Continuations by the Result they produce from their argument x:
\* an OK carrying x, or an ERR carrying x.
OkShaped == {"toOk", "toOkPromise", "toOkAsync"}

ErrShaped == {"toErr", "toErrPromise", "toErrAsync"}

\* For the promise p of x.andThen(fn).unwrap() / x.orElse(fn).unwrap():
\* the promise of the derived ResultAsync, and the promise of x.
C19_Derived(p) == promises[promises[p].from].from

C19_Origin(p) == promises[C19_Derived(p)].from

\* The promises returned by ok(v).op(fn).unwrap() and err(e).op(fn).unwrap(),
\* op being andThen or orElse and fn returning a Result in any shape.
C19_Chains ==
    {p \in AccessorPromises :
        /\ promises[promises[p].from].by.kind = "unwrap"
        /\ promises[C19_Derived(p)].by.kind \in {"andThen", "orElse"}
        /\ promises[C19_Derived(p)].by.fn \in OkShaped \cup ErrShaped
        /\ C19_Origin(p) # 0
        /\ promises[C19_Origin(p)].by.kind \in {"ok", "err"}}

\* The continuation is to run: andThen on ok(v), orElse on err(e).
C19_Runs(p) ==
    (promises[C19_Derived(p)].by.kind = "andThen")
        <=> (promises[C19_Origin(p)].by.kind = "ok")

\* What unwrap is to complete as, given being the payload ok / err took.
C19_Expected(p) ==
    LET given == promises[C19_Origin(p)].by.arg
        fn    == promises[C19_Derived(p)].by.fn
    IN  IF C19_Runs(p)
        THEN IF fn \in OkShaped THEN Return(given) ELSE Throw(given)
        ELSE IF promises[C19_Origin(p)].by.kind = "ok"
             THEN Return(given) ELSE Throw(given)

C19_ExpectedCalls(p) ==
    IF C19_Runs(p)
    THEN <<Invocation(promises[C19_Derived(p)].by.fn, promises[C19_Origin(p)].by.arg)>>
    ELSE <<>>

C19_Holds(p) ==
    /\ ~C19_Runs(p) => promises[C19_Derived(p)].calls = <<>>
    /\ IsSettled(p) =>
           /\ SettledAs(p, C19_Expected(p))
           /\ promises[C19_Derived(p)].calls = C19_ExpectedCalls(p)

\* C19: every such chain settles to the outcome of fn on the payload, or
\* short-circuits carrying the payload with fn never invoked.
C19_AsyncChainsAndShortCircuits == \A p \in C19_Chains : C19_Holds(p)

\* The same for payloads that are neither null nor undefined.
C19_AsyncChainsOnDefinedPayloads ==
    \A p \in C19_Chains :
        ~Nullish(promises[C19_Origin(p)].by.arg) => C19_Holds(p)

\* A short-circuit never invokes the continuation, whatever the payload.
C19_ShortCircuitNeverInvokes ==
    \A p \in C19_Chains :
        ~C19_Runs(p) => promises[C19_Derived(p)].calls = <<>>

\* A chain that ran the continuation has settled, on a defined payload.
C19_ContinuationChainSettled ==
    \E p \in C19_Chains :
        C19_Runs(p) /\ IsSettled(p) /\ ~Nullish(promises[C19_Origin(p)].by.arg)

\* A chain that short-circuited has settled, on a defined payload.
C19_ShortCircuitChainSettled ==
    \E p \in C19_Chains :
        ~C19_Runs(p) /\ IsSettled(p) /\ ~Nullish(promises[C19_Origin(p)].by.arg)

\* ------------------------------------------------------------------------
\* C20 The three continuation shapes accepted by async andThen / orElse
\*     are equivalent: for the same ResultSync r, a continuation returning
\*     r, a promise that resolves to r, or a ResultAsync that settles to r
\*     all make the derived ResultAsync settle to r.
\* ------------------------------------------------------------------------

\* The promises of derived ResultAsyncs whose continuation ran and returned.
C20_Continued ==
    {d \in DOMAIN promises :
        /\ promises[d].by.kind \in {"andThen", "orElse"}
        /\ promises[d].ret # <<>>
        /\ promises[d].ret[1].kind = "return"}

\* What the continuation returned.
C20_Returned(d) == promises[d].ret[1].val

\* The ResultSync r the returned value stands for is known: the value is
\* r, or the promise it is or holds has been fulfilled.
C20_Known(d) ==
    LET v == C20_Returned(d) IN
    v.t # "ResultSync" => promises[ThenablePromise(Current, v)].state = "fulfilled"

\* That ResultSync r, as a reference.
C20_Result(d) ==
    LET v == C20_Returned(d) IN
    IF v.t = "ResultSync" THEN v ELSE promises[ThenablePromise(Current, v)].val

\* The Result a continuation of this shape builds from its argument.
C20_Built(d) ==
    LET x == promises[d].calls[1].arg IN
    IF promises[d].by.fn \in OkShaped
    THEN ResultSync(ResultStatus.OK, x, Undefined)
    ELSE ResultSync(ResultStatus.ERR, Undefined, x)

\* C20: whatever the shape, the derived promise settles only once r is
\* known, is then fulfilled with r itself, which has the status and payload
\* the continuation gave it, and it does settle once r is known and no job
\* is left to run.
C20_ShapesSettleToSameResult ==
    \A d \in C20_Continued :
        /\ IsSettled(d) =>
               /\ C20_Known(d)
               /\ SettledAs(d, Return(C20_Result(d)))
               /\ results[promises[d].val.n] = C20_Built(d)
        /\ (C20_Known(d) /\ jobs = <<>>) => IsSettled(d)

\* A derived ResultAsync has settled whose continuation returned another
\* ResultAsync.
C20_AsyncShapeSettled ==
    \E d \in C20_Continued :
        /\ C20_Returned(d).t = "ResultAsync"
        /\ IsSettled(d)

\* The same for a continuation that returned a promise of a Result.
C20_PromiseShapeSettled ==
    \E d \in C20_Continued :
        /\ C20_Returned(d).t = "Promise"
        /\ IsSettled(d)

\* ------------------------------------------------------------------------
\* C21 Awaiting a ResultAsync suspends the caller until the underlying
\*     promise settles and then yields the plain ResultSync it settled to:
\*     awaiting toAsync(r) yields r itself, awaiting ok(v) an OK Result
\*     carrying v and awaiting err(e) an ERR Result carrying e, without
\*     rejecting.
\* ------------------------------------------------------------------------

\* The promises whose fulfilment resumes an `await a`.
AwaitPromises == {w \in DOMAIN promises : promises[w].by.kind = "await"}

\* The await of w is not resumed before the awaited promise u settled; a
\* fulfilled u resumes it with the very ResultSync u holds; and it is
\* resumed once u settled and no job is left to run.
C21_Resumes(w) ==
    LET u == promises[w].from IN
    /\ IsSettled(w) => IsSettled(u)
    /\ (IsSettled(w) /\ promises[u].state = "fulfilled") =>
           /\ SettledAs(w, Return(promises[u].val))
           /\ promises[w].val.t = "ResultSync"
    /\ (IsSettled(u) /\ jobs = <<>>) => IsSettled(w)

\* What the await yields carries the payload ok / err was given, and is
\* the instance toAsync was given.
C21_Carries(w) ==
    LET u == promises[w].from
        by == promises[u].by
    IN  IsSettled(w) =>
            /\ by.kind = "toAsync" => SettledAs(w, Return(by.arg))
            /\ by.kind = "ok" =>
                   /\ promises[w].state = "fulfilled"
                   /\ CarriesOk(results[promises[w].val.n], by.arg)
            /\ by.kind = "err" =>
                   /\ promises[w].state = "fulfilled"
                   /\ CarriesErr(results[promises[w].val.n], by.arg)

\* C21: every await resumes with the Result the ResultAsync settled to,
\* which carries what ok / err / toAsync was given.
C21_AwaitYieldsSettledResult ==
    \A w \in AwaitPromises : C21_Resumes(w) /\ C21_Carries(w)

\* The same for payloads of ok / err that are neither null nor undefined.
C21_AwaitYieldsDefinedPayload ==
    \A w \in AwaitPromises :
        /\ C21_Resumes(w)
        /\ ~(promises[promises[w].from].by.kind \in {"ok", "err"}
                 /\ Nullish(promises[promises[w].from].by.arg))
               => C21_Carries(w)

\* An await of err("a") was resumed.
C21_AwaitResumed ==
    \E w \in AwaitPromises :
        /\ IsSettled(w)
        /\ promises[promises[w].from].by.kind = "err"
        /\ promises[promises[w].from].by.arg = Str("a")

\* ------------------------------------------------------------------------
\* C22 When several continuations (combinators, accessors or awaits) are
\*     attached to the same ResultAsync instance, every one of them
\*     observes the same single settled outcome, each observes it exactly
\*     once, and their callbacks run in the order in which they were
\*     attached.
\* ------------------------------------------------------------------------

\* The settlements of promise u reported to target t so far.
Observations(t, u) ==
    {i \in DOMAIN promises[t].saw : promises[t].saw[i].of = u}

Observed(t, u) == Observations(t, u) # {}

\* Every continuation registered on u was handed u's own settlement, at
\* most once, and exactly once when no job is left to run.
C22_SameOutcomeOnce(u) ==
    LET att == promises[u].attached IN
    /\ \A i, j \in DOMAIN att : att[i] = att[j] => i = j
    /\ \A i \in DOMAIN att :
           /\ Cardinality(Observations(att[i], u)) <= 1
           /\ \A k \in Observations(att[i], u) :
                  promises[att[i]].saw[k] =
                      Outcome(u, promises[u].state, promises[u].val)
           /\ Observed(att[i], u) => IsSettled(u)
           /\ (IsSettled(u) /\ jobs = <<>>) => Observed(att[i], u)

\* A continuation has run only if all those registered before it have.
C22_InOrder(u) ==
    LET att == promises[u].attached IN
    \A i, j \in DOMAIN att :
        (i < j /\ Observed(att[j], u)) => Observed(att[i], u)

DerivedPromises ==
    {d \in DOMAIN promises : promises[d].by.kind \in Combinators}

OkSide == {"map", "andThen", "andTee"}

\* The receiver's promise u settled on the branch combinator op acts on.
MatchingBranch(op, u) ==
    /\ promises[u].state = "fulfilled"
    /\ IF op \in OkSide THEN isOk(results[promises[u].val.n])
                        ELSE isErr(results[promises[u].val.n])

\* What has been invoked for derived promise d is what its receiver's
\* settlement calls for.
C23_InvokedOnSettlement(d) ==
    LET u == promises[d].from
        c == promises[d].calls
    IN  /\ Len(c) <= 1
        /\ c # <<>> => /\ IsSettled(u)
                       /\ Observed(d, u)
                       /\ c[1].fn = promises[d].by.fn
        /\ Observed(d, u) =>
               (Len(c) = 1 <=> MatchingBranch(promises[d].by.kind, u))
        /\ (IsSettled(u) /\ jobs = <<>>) => Observed(d, u)

C23_State == \A d \in DerivedPromises : C23_InvokedOnSettlement(d)

\* A call made by the caller's code invokes no callback: the promise it
\* creates has none recorded, and no other promise gains one.
C23_CallInvokesNothing ==
    called' # called =>
        \A p \in DOMAIN promises' :
            promises'[p].calls =
                IF p \in DOMAIN promises THEN promises[p].calls ELSE <<>>

\* C23: a combinator call invokes nothing, and the function is invoked
\* only by the job run for the receiver's settlement, once when that
\* settlement is on the combinator's branch and not at all otherwise.
C23_CombinatorsOnlyAttach ==
    []C23_State /\ [][C23_CallInvokesNothing]_vars

\* A combinator's function has been invoked, for a receiver that was
\* still pending when the combinator was called.
C23_InvokedAfterSettlement ==
    \E d \in DerivedPromises :
        /\ Len(promises[d].calls) = 1
        /\ promises[promises[d].from].by.kind = "catch"

\* ------------------------------------------------------------------------
\* C24 No cancellation: once a ResultAsync's computation is in flight it
\*     runs to completion, and no combinator chained onto it, whatever its
\*     callback returns or raises, can abort it or change the outcome it
\*     settles to; the predecessor's settled Result is the same with or
\*     without successors attached.
\* ------------------------------------------------------------------------

\* Promise p is exactly as settled, or as pending, after the step as before.
SameSettlement(p) ==
    /\ promises'[p].state = promises[p].state
    /\ promises'[p].val = promises[p].val

\* The Result, or other value, a settled promise holds.
Held(p) ==
    IF promises[p].val.t = "ResultSync" THEN results[promises[p].val.n]
    ELSE promises[p].val

\* The computations started from a value given by the caller.
Started == {"ok", "err", "toAsync", "resolves", "rejects"}

\* A step changes no settlement other than the one it is there to make: a
\* call settles no promise that existed, a job settles only its own target
\* (never the promise it reacts to), and a settled promise stays as it is.
C24_StepKeepsPredecessors ==
    \A p \in DOMAIN promises :
        /\ p \in DOMAIN promises'
        /\ promises'[p].by = promises[p].by
        /\ IsSettled(p) => SameSettlement(p)
        /\ called' # called => SameSettlement(p)
        /\ (called' = called /\ jobs # <<>> /\ p # Head(jobs).target)
               => SameSettlement(p)

\* Nothing is left unfinished: with no job waiting, a promise is pending
\* only while the promise it derives from is, back to one handed to
\* safeTry that has not settled yet.
C24_RunsToCompletion ==
    jobs = <<>> =>
        \A p \in DOMAIN promises :
            ~IsSettled(p) =>
                \/ promises[p].by.kind = "defers"
                \/ /\ promises[p].from # 0
                   /\ ~IsSettled(promises[p].from)

\* Two computations started alike settle alike, whatever was chained onto
\* either of them.
C24_SameWithOrWithoutSuccessors ==
    \A p, q \in DOMAIN promises :
        (/\ promises[p].by.kind \in Started
         /\ promises[p].by = promises[q].by)
            => /\ promises[p].state = promises[q].state
               /\ Held(p) = Held(q)

\* C24: no step aborts or alters a computation, every computation runs to
\* completion, and its outcome does not depend on what is chained onto it.
C24_NoCancellation ==
    /\ [][C24_StepKeepsPredecessors]_vars
    /\ []C24_RunsToCompletion
    /\ []C24_SameWithOrWithoutSuccessors

\* A ResultAsync settled to the Result it was started with although a
\* combinator whose callback raised was chained onto it while in flight.
C24_SettledDespiteRaisingSuccessor ==
    \E d \in DerivedPromises :
        LET u == promises[d].from IN
        /\ promises[d].state = "rejected"
        /\ promises[d].calls # <<>>
        /\ promises[u].by.kind = "catch"
        /\ promises[u].state = "fulfilled"
        /\ \E q \in DOMAIN promises :
               /\ q # u
               /\ promises[q].by = promises[u].by
               /\ promises[q].attached = <<>>
               /\ IsSettled(q)
               /\ Held(q) = Held(u)

\* ------------------------------------------------------------------------
\* C25 Every ResultAsync obtained from ok, err, toAsync, safeTry (with fn
\*     returning a promise that resolves or rejects) or from any sequence
\*     of combinators whose callbacks do not raise wraps a promise that
\*     settles by resolving to a ResultSync and never by rejecting; a
\*     domain failure is always an ERR Result, not a rejection.
\* ------------------------------------------------------------------------

\* A callback invoked for promise p raised: a continuation of andThen /
\* orElse, whose completion is recorded, or another callback.
Raised(p) ==
    IF promises[p].ret # <<>>
    THEN \E i \in DOMAIN promises[p].ret : promises[p].ret[i].kind = "throw"
    ELSE \E i \in DOMAIN promises[p].calls :
             Does(promises[p].calls[i].fn, promises[p].calls[i].arg).kind = "throw"

\* No callback of the given kinds raised for p nor for a promise p derives
\* from.
RECURSIVE NoneRaised(_, _)
NoneRaised(p, kinds) ==
    \/ p = 0
    \/ /\ ~(promises[p].by.kind \in kinds /\ Raised(p))
       /\ NoneRaised(promises[p].from, kinds)

\* The _promise of instance a, once settled, is fulfilled with a Result.
ResolvesToResult(a) ==
    IsSettled(asyncs[a]) =>
        /\ promises[asyncs[a]].state = "fulfilled"
        /\ promises[asyncs[a]].val.t = "ResultSync"

C26_Completions ==
    [i \in DOMAIN last'.calls |-> Does(last'.calls[i].fn, last'.calls[i].arg)]

C26_Raises == {"map", "mapErr", "andThen", "orElse", "match"}

\* The call completed by raising r and built no Result.
C26_Propagated(r) == last'.out = r /\ results' = results

\* A raise of the callback of map, mapErr, andThen, orElse or match is the
\* raise of the call.
C26_CallbackRaise ==
    (last'.op \in C26_Raises /\ last'.calls # <<>>
        /\ C26_Completions[1].kind = "throw")
        => C26_Propagated(C26_Completions[1])

\* A raise of mapError, called with what fn raised, is the raise of the
\* call of the closure safeTrySync returned.
C26_MapErrorRaise ==
    (last'.op = "safeTrySyncClosure" /\ Len(last'.calls) = 2
        /\ C26_Completions[2].kind = "throw")
        => C26_Propagated(C26_Completions[2])

\* Outside that closure, no call that invoked a raising callback returns.
C26_NeverSwallowed ==
    (last'.op # "safeTrySyncClosure"
        /\ \E i \in DOMAIN last'.calls : C26_Completions[i].kind = "throw")
        => last'.out.kind = "throw" /\ results' = results

\* C26: the raise of a callback leaves the synchronous call as a raise,
\* the same one for map, mapErr, andThen, orElse, match and for the
\* mapError of safeTrySync.
C26_RaisePropagates ==
    [][C26_CallbackRaise /\ C26_MapErrorRaise /\ C26_NeverSwallowed]_vars

\* The callback of a map, mapErr, andThen or orElse raised 'b', and the
\* call raised 'b'.
C26_CombinatorRaised ==
    /\ last.op \in Combinators \cap C26_Raises
    /\ last.calls # <<>>
    /\ last.fn \in {"throwB", "raiseB"}
    /\ last.out = Throw(Str("b"))

\* The mapError of a safeTrySync raised, and the closure's call raised.
C26_MapErrorRaised ==
    /\ last.op = "safeTrySyncClosure"
    /\ Len(last.calls) = 2
    /\ last.calls[2].fn = "throwB"
    /\ last.out = Throw(Str("b"))

\* ------------------------------------------------------------------------
\* C27 Branch preservation through arbitrary chains: starting from
\*     errSync(e), any finite sequence of the OK-side combinators map,
\*     andThen and andTee yields an ERR Result whose error is identical to
\*     e and invokes none of the supplied callbacks; symmetrically,
\*     starting from okSync(v), any finite sequence of mapErr, orElse and
\*     orTee yields an OK Result whose value is identical to v and invokes
\*     none of the callbacks.
\* ------------------------------------------------------------------------

ErrSide == Combinators \ OkSide

\* The call just made returned a Result.
C27_ReturnedResult == last'.out.kind = "return" /\ last'.out.val.t = "ResultSync"

\* The start of a chain: the factory's Result carries the payload given.
C27_Start ==
    /\ last'.op = "errSync" =>
           C27_ReturnedResult /\ CarriesErr(results'[last'.out.val.n], last'.arg)
    /\ last'.op = "okSync" =>
           C27_ReturnedResult /\ CarriesOk(results'[last'.out.val.n], last'.arg)

\* A link of a chain: a combinator of the other side, called on any ERR
\* (OK) Result, returns an ERR (OK) Result carrying the receiver's very
\* payload, and invokes nothing.
C27_Link ==
    /\ (last'.op \in OkSide /\ isErr(results[last'.recv])) =>
           /\ C27_ReturnedResult
           /\ CarriesErr(results'[last'.out.val.n], results[last'.recv].err)
           /\ last'.calls = <<>>
    /\ (last'.op \in ErrSide /\ isOk(results[last'.recv])) =>
           /\ C27_ReturnedResult
           /\ CarriesOk(results'[last'.out.val.n], results[last'.recv].ok)
           /\ last'.calls = <<>>

\* C27: the factory's Result carries the payload given and every link
\* hands it on unchanged, so that every chain ends with it.
C27_ChainsPreserveBranch == [][C27_Start /\ C27_Link]_vars

\* The same for the payloads a Result can hold: a chain started with a
\* payload that is neither null nor undefined ends with it.
C27_ChainsPreserveDefinedPayload ==
    [][(~Nullish(last'.arg) => C27_Start) /\ C27_Link]_vars

\* A chain of two links has been run from errSync('a'): the third Result
\* was returned by a combinator called on the second, and carries 'a'.
C27_TwoLinksRun ==
    /\ fresh = [id |-> 1, by |-> "errSync", given |-> Str("a")]
    /\ Len(results) = 3
    /\ last.op \in OkSide
    /\ last.recv = 2
    /\ last.out = Return(Ref(3))
    /\ CarriesErr(results[3], Str("a"))

\* ------------------------------------------------------------------------
\* C28 The ResultAsync combinators are the synchronous ones lifted: for
\*     every ResultSync r and every non-raising callback f, awaiting
\*     toAsync(r).op(f) yields a Result equal to r.op(f) for op in {map,
\*     mapErr, andTee, orTee}, and for op in {andThen, orElse} when f
\*     returns a ResultSync; the callback is invoked the same number of
\*     times with the same argument in both worlds.
\* ------------------------------------------------------------------------

\* r.op(fn) of ResultSync.
SyncCombinator(h, r, op, fn) ==
    CASE op = "map"     -> map(h, r, fn)
      [] op = "mapErr"  -> mapErr(h, r, fn)
      [] op = "andThen" -> andThen(h, r, fn)
      [] op = "orElse"  -> orElse(h, r, fn)
      [] op = "andTee"  -> andTee(h, r, fn)
      [] op = "orTee"   -> orTee(h, r, fn)

\* The callbacks that do not raise and, for andThen / orElse, return a
\* ResultSync.
C28_Callbacks == {"constA", "toOk", "toErr"}

\* The promises of toAsync(r).op(f), for such an f.
C28_Lifted ==
    {d \in DerivedPromises :
        /\ promises[promises[d].from].by.kind = "toAsync"
        /\ promises[d].by.fn \in C28_Callbacks}

\* r.op(f), for the promise d of toAsync(r).op(f).
C28_Sync(d) ==
    SyncCombinator(results, results[promises[promises[d].from].val.n],
                   promises[d].by.kind, promises[d].by.fn)

\* Once d is settled it holds a Result equal to the one r.op(f) returns,
\* and f was invoked for it as r.op(f) invokes it.
C28_Agrees(d) ==
    LET e == C28_Sync(d) IN
    IsSettled(d) =>
        /\ e.out.kind = "return"
        /\ promises[d].state = "fulfilled"
        /\ promises[d].val.t = "ResultSync"
        /\ results[promises[d].val.n] = e.h[e.out.val.n]
        /\ promises[d].calls = e.calls

\* C28: toAsync(r).op(f) settles to the Result r.op(f) returns, with the
\* same invocations of f.
C28_AsyncCombinatorsAreSyncLifted == \A d \in C28_Lifted : C28_Agrees(d)

\* toAsync(r).orElse(f) has settled for an ERR Result r, f having been
\* invoked.
C28_LiftedContinuationSettled ==
    \E d \in C28_Lifted :
        /\ IsSettled(d)
        /\ promises[d].by.kind = "orElse"
        /\ Len(promises[d].calls) = 1

\* toAsync(r).map(f) has settled for an OK Result r, f having been invoked.
C28_LiftedMapSettled ==
    \E d \in C28_Lifted :
        /\ IsSettled(d)
        /\ promises[d].by.kind = "map"
        /\ Len(promises[d].calls) = 1

\* ------------------------------------------------------------------------
\* C29 When the callback given to the async andTee (on an OK outcome) or
\*     orTee (on an ERR outcome) raises x, the combinator call itself still
\*     returns a ResultAsync, but that derived ResultAsync settles as a
\*     rejection with a NoThrowAllowedError whose cause is x, never as an
\*     ERR Result, so awaiting it, or its unwrap, unwrapOr or match,
\*     rejects; the ResultAsync the tee was attached to still settles to
\*     its original Result.
\* ------------------------------------------------------------------------

\* The promises of the tees whose callback was invoked and raised.
C29_RaisedTees ==
    {d \in DerivedPromises :
        /\ promises[d].by.kind \in {"andTee", "orTee"}
        /\ promises[d].calls # <<>>
        /\ Raised(d)}

\* What the callback raised.
C29_Raised(d) == Does(promises[d].calls[1].fn, promises[d].calls[1].arg).val

\* p is the promise of an await of d's ResultAsync, of a then registered on
\* d, or the promise an accessor called on that ResultAsync returned.
C29_Awaits(p, d) ==
    \/ promises[p].from = d
    \/ p \in AccessorPromises /\ promises[promises[p].from].from = d

\* d belongs to a ResultAsync and is rejected; whatever was attached to
\* that ResultAsync and has settled is rejected with the same error; and
\* the promise the tee was attached to is fulfilled with a Result.
C29_Rejects(d) ==
    /\ \E a \in DOMAIN asyncs : asyncs[a] = d
    /\ promises[d].state = "rejected"
    /\ \A p \in DOMAIN promises :
           (C29_Awaits(p, d) /\ IsSettled(p)) =>
               /\ promises[p].state = "rejected"
               /\ promises[p].val = promises[d].val
    /\ promises[promises[d].from].state = "fulfilled"
    /\ promises[promises[d].from].val.t = "ResultSync"

\* The rejection is a NoThrowAllowedError whose cause is what was raised.
C29_WithCause(d) ==
    /\ promises[d].val.t = "NoThrowAllowedError"
    /\ promises[d].val.c = <<C29_Raised(d)>>

\* C29: whatever the tee's callback raises, the derived ResultAsync
\* rejects with a NoThrowAllowedError caused by it.
C29_AsyncTeeRaiseRejectsWithCause ==
    \A d \in C29_RaisedTees : C29_Rejects(d) /\ C29_WithCause(d)

\* The same for the raised values a template literal can convert to a
\* string; for the others the derived ResultAsync rejects all the same.
C29_AsyncTeeRaiseOfPrintableRejectsWithCause ==
    \A d \in C29_RaisedTees :
        /\ C29_Rejects(d)
        /\ CanInterpolate(C29_Raised(d)) => C29_WithCause(d)

\* An accessor of a ResultAsync derived by a tee whose callback raised has
\* rejected.
C29_AccessorOfRaisedTeeRejected ==
    \E d \in C29_RaisedTees, p \in AccessorPromises :
        /\ C29_Awaits(p, d)
        /\ promises[p].state = "rejected"
        /\ promises[p].val.t = "NoThrowAllowedError"

\* ------------------------------------------------------------------------
\* C30 Exclusive ownership of the promise: no two ResultAsync instances
\*     produced by ok, err, toAsync, safeTry or any combinator share the
\*     same internal promise; each combinator call creates a new promise
\*     derived from its predecessor's, including when an andThen / orElse
\*     continuation returns another ResultAsync (that ResultAsync's promise
\*     is adopted, not reused as the derived instance's own).
\* ------------------------------------------------------------------------

\* The instance owning promise p, if any.
Owners(p) == {a \in DOMAIN asyncs : asyncs[a] = p}

\* No promise belongs to two instances, and the promise of an instance
\* derived by a continuation that returned a ResultAsync is not the
\* promise of the instance returned.
C30_Exclusive ==
    /\ \A p \in DOMAIN promises : Cardinality(Owners(p)) <= 1
    /\ \A d \in DerivedPromises :
           (promises[d].ret # <<>> /\ promises[d].ret[1].kind = "return"
               /\ promises[d].ret[1].val.t = "ResultAsync")
               => /\ asyncs[promises[d].ret[1].val.n] # d
                  /\ Owners(d) # {}
                  /\ promises[d].ret[1].val.n \notin Owners(d)

\* A call that returns a ResultAsync gives it a promise made by that call;
\* a combinator's is derived from the promise of its receiver.
C30_CallCreatesPromise ==
    (called' # called /\ last'.out.kind = "return"
        /\ last'.out.val.t = "ResultAsync")
        => LET a == last'.out.val.n IN
           /\ a \notin DOMAIN asyncs
           /\ asyncs'[a] \notin DOMAIN promises
           /\ last'.op \in Combinators =>
                  /\ promises'[asyncs'[a]].from = asyncs[last'.recv]
                  /\ promises'[asyncs'[a]].by.kind = last'.op

\* C30: every ResultAsync has a promise of its own, made by the call that
\* produced it.
C30_ExclusiveOwnership == []C30_Exclusive /\ [][C30_CallCreatesPromise]_vars

\* An andThen / orElse whose continuation returned a ResultAsync has
\* settled: three instances, three promises.
C30_AdoptedNotReused ==
    \E d \in DerivedPromises :
        /\ promises[d].ret # <<>>
        /\ promises[d].ret[1].val.t = "ResultAsync"
        /\ IsSettled(d)
        /\ Cardinality({asyncs[a] : a \in DOMAIN asyncs}) = 3

====
